---- MODULE Spec2Model ----
(***************************************************************************)
(* Asset-discovery simulator: the detect / fix / re-simulate loop of       *)
(* AssetSimulator::check_transaction_with_options, the ERC20 checker, the  *)
(* trace selector and the aggregator, over an abstract EVM executor.       *)
(***************************************************************************)
EXTENDS Integers, Sequences, FiniteSets

VARIABLES
    storage,             \* executor backend: contract address -> slot -> word
    storage0,            \* the backend as it was when the current run began
    tracing,             \* executor records call traces (TraceMode)
    checkers,            \* AssetSimulator.checkers, in registration order
    runs,                \* number of check_transaction runs started so far
    pc,                  \* position inside check_transaction_with_options
    call,                \* argument: the Call being simulated
    auto_fix,            \* argument
    max_iterations,      \* argument
    iteration,           \* the for-loop's _iteration
    all_missing_assets,  \* Vec<MissingAssetInfo> accumulated over iterations
    found_any_missing,   \* per-iteration flag
    trace,               \* node chosen by find_last_non_proxy_call (or None)
    ci,                  \* index of the checker being consulted
    pending,             \* measurement awaiting its deal: [asset, missing]
    result,              \* value returned by the run (None while running)
    log,                 \* engine operations of the current run, in order
    faults,              \* engine failures injected so far
    traces,              \* result.traces of the last execution (None without tracing)
    potential_asset,     \* candidate identified by the checker consulted last
    last_report          \* what the previous run on this simulator returned

vars == << storage, storage0, tracing, checkers, runs, pc, call, auto_fix, max_iterations,
           iteration, all_missing_assets, found_any_missing, trace, ci,
           pending, result, log, faults, traces, potential_asset, last_report >>

----------------------------------------------------------------------------
(* Bounds of the model *)

\* width in bits of the machine word standing for U256
W == 3
\* largest max_iterations passed explicitly by a caller
MaxIter == 2
\* largest number of registered checkers
MaxCheckers == 2
\* number of engine failures (transact_raw, call_raw, insert_account_storage)
\* the environment injects in one run
MaxFaults == 1
\* iterations of a run, counted from its first, in which the environment
\* injects engine failures
FaultWindow == 2
\* longest call tree handed to the trace selector on its own
MaxTraceLen == 4
\* number of runs made on one simulator
MaxRuns == 2

(* Program constants *)

\* check_transaction's iteration cap
DefaultMaxIterations == 10

Modulus == 2 ^ W
\* U256::MAX
U256_MAX == Modulus - 1
\* U256::ZERO
U256_ZERO == 0
\* deal's sentinel: U256::MAX >> 1
large_balance == U256_MAX \div 2

\* ruint arithmetic used by the program
wrapping_add(a, b) == (a + b) % Modulus
saturating_sub_Wrapping(a, b) == (a - b) % Modulus
saturating_sub(a, b) == IF a >= b THEN a - b ELSE 0

None == [none |-> TRUE]
Some(v) == [some |-> v]
IsSome(o) == o # None
Ok(v) == [ok |-> v]
Err(e) == [err |-> e]
IsOk(r) == "ok" \in DOMAIN r
IsErr(r) == "err" \in DOMAIN r

----------------------------------------------------------------------------
(* Addresses *)

ADDR_ZERO == 0     \* Address::ZERO
A1 == 1            \* an externally owned account
A2 == 2            \* an externally owned account
MC == 3            \* the Multicall3 contract
T1 == 4            \* a plain ERC20 token contract (MockERC20 / WETH)
T2 == 5            \* an ERC20 token behind an upgradeable proxy (USDC)
IMPL == 6          \* T2's implementation contract
XC == 7            \* a contract without the ERC20 interface: every call reverts
Holders == {ADDR_ZERO, A1, A2, MC}
Tokens == {T1, T2}

(* Storage layout of a token: mapping slots are an injective function of the keys *)
NHolders == Cardinality(Holders)
BalSlot(a) == a
AllowSlot(owner, spender) == NHolders + NHolders * owner + spender
ImplSlot == NHolders + NHolders * NHolders
Slots == 0 .. ImplSlot

(* Call payloads: a 4-byte selector followed by ABI-encoded arguments *)
SelTransfer == "a9059cbb"
SelTransferFrom == "23b872dd"
SelApprove == "095ea7b3"
SelAggregate == "252dba42"
SelAllowance == "dd62ed3e"
SelNone == ""

Payload(sel, args) == [sel |-> sel, args |-> args]
transferData(to, amount) == Payload(SelTransfer, << to, amount >>)
transferFromData(from, to, amount) == Payload(SelTransferFrom, << from, to, amount >>)
approveData(spender, amount) == Payload(SelApprove, << spender, amount >>)
aggregateData(legs) == Payload(SelAggregate, legs)
allowanceData(owner, spender) == Payload(SelAllowance, << owner, spender >>)
emptyData == Payload(SelNone, << >>)

try_decode_transfer_AnySelector(data) ==
    IF Len(data.args) = 2
    THEN Some([to |-> data.args[1], amount |-> data.args[2]])
    ELSE None

\* transferCall::abi_decode / transferFromCall::abi_decode
try_decode_transfer(data) ==
    IF data.sel = SelTransfer /\ Len(data.args) = 2
    THEN Some([to |-> data.args[1], amount |-> data.args[2]])
    ELSE None

try_decode_transferFrom(data) ==
    IF data.sel = SelTransferFrom /\ Len(data.args) = 3
    THEN Some([from |-> data.args[1], to |-> data.args[2], amount |-> data.args[3]])
    ELSE None

----------------------------------------------------------------------------
(* The executor's view of the chain: the token contracts the tests run on *)

CallKind_Call == "Call"
CallKind_DelegateCall == "DelegateCall"

\* forge::traces::CallTrace, the fields the program reads; steps are kept as
\* the slots of the frame's SLOAD steps, in execution order
Node(kind, caller, address, data, sloads) ==
    [kind |-> kind, caller |-> caller, address |-> address, data |-> data,
     sloads |-> sloads]

Frame(ok, s, sloads) == [ok |-> ok, s |-> s, sloads |-> sloads]

\* MockERC20._transfer(from, to, amount) on slot map s, after the SLOADs `pre`
TokenTransfer(s, pre, from, to, amount) ==
    IF from = ADDR_ZERO \/ to = ADDR_ZERO
    THEN Frame(FALSE, s, pre)
    ELSE IF s[BalSlot(from)] < amount
    THEN Frame(FALSE, s, pre \o << BalSlot(from) >>)
    ELSE LET s1 == [s EXCEPT ![BalSlot(from)] = @ - amount]
         IN  IF s1[BalSlot(to)] + amount > U256_MAX
             THEN Frame(FALSE, s, pre \o << BalSlot(from), BalSlot(from), BalSlot(to) >>)
             ELSE Frame(TRUE, [s1 EXCEPT ![BalSlot(to)] = @ + amount],
                        pre \o << BalSlot(from), BalSlot(from), BalSlot(to) >>)

\* MockERC20.transferFrom after the allowance test passed: f is the outcome
\* of _transfer, al the allowance slot
TransferFromTail(f, al, amount) ==
    IF f.ok
    THEN Frame(TRUE, [f.s EXCEPT ![al] = @ - amount], f.sloads \o << al >>)
    ELSE f

\* MockERC20 code run by `sender` with payload `data` on slot map s
TokenLogic(s, sender, data) ==
    IF data.sel = SelTransfer /\ Len(data.args) = 2
    THEN TokenTransfer(s, << >>, sender, data.args[1], data.args[2])
    ELSE IF data.sel = SelTransferFrom /\ Len(data.args) = 3
    THEN IF s[AllowSlot(data.args[1], sender)] < data.args[3]
         THEN Frame(FALSE, s, << AllowSlot(data.args[1], sender) >>)
         ELSE TransferFromTail(
                  TokenTransfer(s, << AllowSlot(data.args[1], sender) >>,
                                data.args[1], data.args[2], data.args[3]),
                  AllowSlot(data.args[1], sender), data.args[3])
    ELSE IF data.sel = SelApprove /\ Len(data.args) = 2
    THEN IF sender = ADDR_ZERO \/ data.args[1] = ADDR_ZERO
         THEN Frame(FALSE, s, << >>)
         ELSE Frame(TRUE, [s EXCEPT ![AllowSlot(sender, data.args[1])] = data.args[2]],
                    << >>)
    ELSE Frame(FALSE, s, << >>)

\* the trace and state left by a call into token `t` whose code ran as frame f
PlainCall(st, sender, t, data, f) ==
    [ok |-> f.ok, st |-> [st EXCEPT ![t] = f.s],
     nodes |-> << Node(CallKind_Call, sender, t, data, f.sloads) >>]

\* the same behind a proxy: the proxy frame reads the implementation slot and
\* delegate-calls with the calldata unchanged
ProxyCall(st, sender, t, data, f) ==
    [ok |-> f.ok, st |-> [st EXCEPT ![t] = f.s],
     nodes |-> << Node(CallKind_Call, sender, t, data, << ImplSlot >>),
                  Node(CallKind_DelegateCall, t, st[t][ImplSlot], data, f.sloads) >>]

\* One message call into `target`: [ok, st, nodes], nodes in execution order.
\* T1 runs the token code itself; T2 is a proxy onto it (a delegate-call to an
\* address without code succeeds and does nothing); XC reverts whatever it is
\* sent; anything else has no code.
CallContract(st, sender, target, data) ==
    IF target = T1
    THEN PlainCall(st, sender, T1, data, TokenLogic(st[T1], sender, data))
    ELSE IF target = T2
    THEN IF st[T2][ImplSlot] = IMPL
         THEN ProxyCall(st, sender, T2, data, TokenLogic(st[T2], sender, data))
         ELSE ProxyCall(st, sender, T2, data, Frame(TRUE, st[T2], << >>))
    ELSE [ok |-> target # XC, st |-> st,
          nodes |-> << Node(CallKind_Call, sender, target, data, << >>) >>]

\* Multicall3.aggregate after one more leg: prev the outcome so far, r the leg's
LegDone(prev, r) ==
    [ok |-> r.ok, st |-> r.st, nodes |-> prev.nodes \o r.nodes]

\* Multicall3.aggregate: the legs in order, each required to succeed;
\* run[i] is the outcome after leg i
AggregateLegs(st, legs, top) ==
    LET run[i \in 0 .. Len(legs)] ==
            IF i = 0 THEN [ok |-> TRUE, st |-> st, nodes |-> top]
            ELSE IF ~run[i - 1].ok THEN run[i - 1]
            ELSE LegDone(run[i - 1],
                         CallContract(run[i - 1].st, MC, legs[i].target,
                                      legs[i].callData))
    IN  run[Len(legs)]

\* a revert discards every state change of the transaction
Outcome(st, r) ==
    [reverted |-> ~r.ok, st |-> IF r.ok THEN r.st ELSE st, nodes |-> r.nodes]

\* Executor::transact_raw's EVM run: [reverted, st, nodes]
Execute(st, c) ==
    IF c.to = MC /\ c.data.sel = SelAggregate
    THEN Outcome(st, AggregateLegs(st, c.data.args,
                                   << Node(CallKind_Call, c.from, MC, c.data, << >>) >>))
    ELSE Outcome(st, CallContract(st, c.from, c.to, c.data))

\* Return data of balanceOf(account) run on `token`: one word from a token,
\* nothing from a reverting contract or from an address without code
BalanceOfOutput(st, token, account) ==
    IF token = T1 THEN << st[T1][BalSlot(account)] >>
    ELSE IF token = T2 /\ st[T2][ImplSlot] = IMPL THEN << st[T2][BalSlot(account)] >>
    ELSE << >>

\* Executor::call_raw of balanceOf(account); `fault` is an engine failure
call_raw(st, token, account, fault) ==
    IF fault THEN Err("call_raw")
    ELSE Ok([out |-> Some(BalanceOfOutput(st, token, account))])

\* balanceOfCall::abi_decode_returns(..).ok()
abi_decode_returns(bytes) == IF Len(bytes) = 1 THEN Some(bytes[1]) ELSE None

----------------------------------------------------------------------------
(* utils.rs *)

\* trace_list.iter().position(|t| t == *trace): the first structurally equal node
position(trace_list, t) ==
    CHOOSE i \in 1 .. Len(trace_list) :
        /\ trace_list[i] = t
        /\ \A j \in 1 .. (i - 1) : trace_list[j] # t

is_non_proxy_NoFirst(trace_list, t) ==
    IF t.kind # CallKind_DelegateCall THEN TRUE
    ELSE IF position(trace_list, t) = 1 THEN FALSE
    ELSE t.data # trace_list[position(trace_list, t) - 1].data

\* the closure of find: TRUE when the node is accepted
is_non_proxy(trace_list, t) ==
    IF t.kind # CallKind_DelegateCall THEN TRUE
    ELSE IF position(trace_list, t) = 1 THEN TRUE
    ELSE t.data # trace_list[position(trace_list, t) - 1].data

RECURSIVE rfind(_, _)
rfind(trace_list, i) ==
    IF i = 0 THEN None
    ELSE IF is_non_proxy(trace_list, trace_list[i]) THEN Some(trace_list[i])
    ELSE rfind(trace_list, i - 1)

find_last_non_proxy_call(arena) == rfind(arena, Len(arena))

\* where in execution order the walk stops (0 when it runs off the front)
RECURSIVE rfind_index(_, _)
rfind_index(trace_list, i) ==
    IF i = 0 THEN 0
    ELSE IF is_non_proxy(trace_list, trace_list[i]) THEN i
    ELSE rfind_index(trace_list, i - 1)

selected_index(arena) == rfind_index(arena, Len(arena))

----------------------------------------------------------------------------
(* checkers/erc20.rs *)

AssetType_ERC20 == "ERC20"

ERC20(token, amount) == [tag |-> "ERC20", token |-> token, amount |-> amount]
Native(amount) == [tag |-> "Native", amount |-> amount]

\* ERC20Checker::new: the decoders in priority order
transfer_checkers == << "transfer", "transferFrom" >>

\* one entry of transfer_checkers applied to the payload: the decoded call
\* as [account, amount], get_account and get_amount applied
try_decode_caller(which, data, t) ==
    IF which = "transfer"
    THEN IF IsSome(try_decode_transfer(data))
         THEN Some([account |-> t.caller,
                    amount |-> try_decode_transfer(data).some.amount])
         ELSE None
    ELSE IF IsSome(try_decode_transferFrom(data))
         THEN Some([account |-> t.caller,
                    amount |-> try_decode_transferFrom(data).some.amount])
         ELSE None

try_decode(which, data, t) ==
    IF which = "transfer"
    THEN IF IsSome(try_decode_transfer(data))
         THEN Some([account |-> t.caller,
                    amount |-> try_decode_transfer(data).some.amount])
         ELSE None
    ELSE IF IsSome(try_decode_transferFrom(data))
         THEN Some([account |-> try_decode_transferFrom(data).some.from,
                    amount |-> try_decode_transferFrom(data).some.amount])
         ELSE None

candidate_CallerAsToken(t, decoded) ==
    [asset_type |-> AssetType_ERC20,
     token_address |-> t.caller,
     account |-> decoded.account,
     required_amount |-> decoded.amount]

\* the candidate built from a successful decode
candidate(t, decoded) ==
    [asset_type |-> AssetType_ERC20,
     token_address |-> t.address,
     account |-> decoded.account,
     required_amount |-> decoded.amount]

RECURSIVE identify_from(_, _)
identify_from(t, k) ==
    IF k > Len(transfer_checkers) THEN None
    ELSE IF IsSome(try_decode(transfer_checkers[k], t.data, t))
    THEN Some(candidate(t, try_decode(transfer_checkers[k], t.data, t).some))
    ELSE identify_from(t, k + 1)

identify_asset(t) == identify_from(t, 1)

\* check_balance after the call: balance_result is call_raw's Result
measure(asset, current_balance) ==
    Ok([account |-> asset.account,
        required |-> ERC20(asset.token_address, asset.required_amount),
        current_balance |-> current_balance,
        missing_amount |-> saturating_sub(asset.required_amount, current_balance)])

\* .out.and_then(|out| abi_decode_returns(..).ok()).unwrap_or(U256::ZERO)
decode_balance(out) ==
    IF IsSome(out) /\ IsSome(abi_decode_returns(out.some))
    THEN abi_decode_returns(out.some).some
    ELSE U256_ZERO

check_balance(asset, st, fault) ==
    IF IsErr(call_raw(st, asset.token_address, asset.account, fault))
    THEN call_raw(st, asset.token_address, asset.account, fault)
    ELSE measure(asset,
                 decode_balance(call_raw(st, asset.token_address, asset.account,
                                         fault).ok.out))

\* AssetContext::from_trace / extract_storage_accesses
from_trace(asset, t) ==
    [potential_asset |-> asset, trace |-> t, storage_accesses |-> t.sloads]

RECURSIVE patch_NumericMax(_, _, _, _)
patch_NumericMax(st, token, slots, n) ==
    IF n = 0 THEN st
    ELSE [patch_NumericMax(st, token, slots, n - 1) EXCEPT ![token][slots[n]] = U256_MAX]

\* backend.insert_account_storage over the first n slots of `slots`
RECURSIVE patch(_, _, _, _)
patch(st, token, slots, n) ==
    IF n = 0 THEN st
    ELSE [patch(st, token, slots, n - 1) EXCEPT ![token][slots[n]] = large_balance]

\* the verification read-back after the patch loop: call_raw of
\* balanceOf(recipient) on the token, its Result only printed
read_back(st, token, recipient, fault) ==
    IF IsErr(call_raw(st, token, recipient, fault)) THEN "failed" ELSE "printed"

\* deal after the patch loop ran to its end, leaving storage st
verified_ReadBackFatal(st, token, recipient, fault) ==
    IF read_back(st, token, recipient, fault) = "failed"
    THEN [res |-> Err("call_raw"), st |-> st, read_back |-> "failed"]
    ELSE [res |-> Ok(TRUE), st |-> st, read_back |-> "printed"]

verified(st, token, recipient, fault) ==
    [res |-> Ok(TRUE), st |-> st, read_back |-> read_back(st, token, recipient, fault)]

deal_NoEmptyCheck(recipient, asset_spec, st, context, failAt, fault) ==
    IF asset_spec.tag = "ERC20"
    THEN IF failAt > 0
         THEN [res |-> Err("insert_account_storage"),
               st |-> patch(st, asset_spec.token, context.storage_accesses, failAt - 1),
               read_back |-> "none"]
         ELSE verified(patch(st, asset_spec.token, context.storage_accesses,
                             Len(context.storage_accesses)),
                       asset_spec.token, recipient, fault)
    ELSE [res |-> Err("ERC20Checker can only deal ERC20 assets"), st |-> st,
          read_back |-> "none"]

\* ERC20Checker::deal: [res, st, read_back]. failAt = k > 0: the k-th storage
\* write is refused by the backend; failAt = 0: every write succeeds. fault:
\* the read-back's call_raw fails.
deal(recipient, asset_spec, st, context, failAt, fault) ==
    IF asset_spec.tag = "ERC20"
    THEN IF context.storage_accesses = << >>
         THEN [res |-> Err("No storage accesses found in trace"), st |-> st,
               read_back |-> "none"]
         ELSE IF failAt > 0
         THEN [res |-> Err("insert_account_storage"),
               st |-> patch(st, asset_spec.token, context.storage_accesses, failAt - 1),
               read_back |-> "none"]
         ELSE verified(patch(st, asset_spec.token, context.storage_accesses,
                             Len(context.storage_accesses)),
                       asset_spec.token, recipient, fault)
    ELSE [res |-> Err("ERC20Checker can only deal ERC20 assets"), st |-> st,
          read_back |-> "none"]

----------------------------------------------------------------------------
(* asset_simulator.rs *)

\* the HashMap of aggregate_missing_assets as a sequence of [key, value]
\* entries in insertion order; keys compare by AssetSpec's derived equality
map_find(map, key) == {i \in 1 .. Len(map) : map[i].key = key}

and_modify_LatestBalance(existing, a) ==
    LET summed == [existing EXCEPT
                     !.missing_amount = wrapping_add(@, a.missing_amount),
                     !.current_balance = a.current_balance]
    IN  IF existing.required.tag = "ERC20" /\ a.required.tag = "ERC20"
        THEN [summed EXCEPT !.required.amount = wrapping_add(@, a.required.amount)]
        ELSE summed

and_modify(existing, a) ==
    LET summed == [existing EXCEPT
                     !.missing_amount = wrapping_add(@, a.missing_amount)]
    IN  IF existing.required.tag = "ERC20" /\ a.required.tag = "ERC20"
        THEN [summed EXCEPT !.required.amount = wrapping_add(@, a.required.amount)]
        ELSE summed

entry_key(a) == << a.account, a.required >>

\* map.entry(key).and_modify(..).or_insert(a)
entry_upsert(map, a, hit) ==
    IF hit # {}
    THEN [map EXCEPT ![CHOOSE j \in hit : TRUE].value = and_modify(@, a)]
    ELSE Append(map, [key |-> entry_key(a), value |-> a])

\* the for-loop over missing_assets: the map after entry i is computed once
\* and handed to the rest of the loop
RECURSIVE aggregate_loop(_, _, _)
aggregate_loop(assets, i, map) ==
    IF i > Len(assets) THEN map
    ELSE CHOOSE r \in {aggregate_loop(assets, i + 1, m) :
                          m \in {entry_upsert(map, assets[i],
                                              map_find(map, entry_key(assets[i])))}} : TRUE

\* map.into_values() in insertion order; the program's Vec is some
\* permutation of it (HashMap iteration order)
into_values(map) == [i \in 1 .. Len(map) |-> map[i].value]

aggregate_missing_assets(assets) == into_values(aggregate_loop(assets, 1, << >>))

Orders(n) == {f \in [1 .. n -> 1 .. n] : \A i, j \in 1 .. n : f[i] = f[j] => i = j}
Permuted(seq, f) == [i \in 1 .. Len(seq) |-> seq[f[i]]]

----------------------------------------------------------------------------
(* Inputs *)

Amounts == {1, large_balance + 1}
Leg(target, callData) == [target |-> target, callData |-> callData]
MkCall(from, to, data) == [from |-> from, to |-> to, value |-> U256_ZERO, data |-> data]

TransferCalls ==
    {MkCall(A1, t, transferData(A2, a)) : t \in Tokens, a \in Amounts}
        \cup {MkCall(A1, T1, transferData(ADDR_ZERO, 1)), MkCall(A1, XC, transferData(A2, 1))}
TransferFromCalls ==
    {MkCall(A2, t, transferFromData(A1, A2, a)) : t \in {T1, T2}, a \in Amounts}
OtherCalls ==
    {MkCall(A1, T1, approveData(A2, 1)), MkCall(A1, A2, emptyData), MkCall(A1, T1, emptyData)}
Legs ==
    {Leg(T1, transferData(A2, a)) : a \in Amounts} \cup {Leg(T2, transferData(A2, 1))}
MultiCalls ==
    {MkCall(A1, MC, aggregateData(<< p[1], p[2] >>)) :
        p \in {q \in Legs \X Legs : q[1] # q[2]}}
\* a batch whose second leg fails for a reason no checker knows
DownstreamCalls ==
    {MkCall(A1, MC, aggregateData(<< Leg(T1, transferData(A2, 1)), Leg(XC, emptyData) >>))}
Calls ==
    TransferCalls \cup TransferFromCalls \cup OtherCalls \cup MultiCalls \cup DownstreamCalls

\* initial holdings of A1 and MC, and initial allowance of A2 over A1's tokens
InitHoldings ==
    {<< 0, 0 >>, << 1, 0 >>, << large_balance + 1, 0 >>, << 0, U256_MAX >>}

InitStorage(b, al) ==
    [t \in Tokens |->
        [s \in Slots |->
            IF s = BalSlot(A1) THEN b
            ELSE IF s = BalSlot(MC) THEN b
            ELSE IF s = AllowSlot(A1, A2) THEN al
            ELSE IF s = ImplSlot /\ t = T2 THEN IMPL
            ELSE 0]]

----------------------------------------------------------------------------
(* State machine *)

Init ==
    /\ \E h \in InitHoldings : storage = InitStorage(h[1], h[2])
    /\ storage0 = storage
    /\ tracing \in BOOLEAN
    /\ checkers \in UNION {[1 .. n -> {AssetType_ERC20}] : n \in 0 .. MaxCheckers}
    /\ runs = 0
    /\ pc = "idle"
    /\ call = None
    /\ auto_fix = FALSE
    /\ max_iterations = 0
    /\ iteration = 0
    /\ all_missing_assets = << >>
    /\ found_any_missing = FALSE
    /\ trace = None
    /\ ci = 0
    /\ pending = None
    /\ result = None
    /\ log = << >>
    /\ faults = 0
    /\ traces = None
    /\ potential_asset = None
    /\ last_report = None

\* the entry of check_transaction_with_options(c, af, mi): the locals of a
\* fresh run; the executor and the checkers are the simulator's own
Enter(c, af, mi) ==
    /\ runs' = runs + 1
    /\ call' = c
    /\ auto_fix' = af
    /\ max_iterations' = mi
    /\ iteration' = 0
    /\ all_missing_assets' = << >>
    /\ found_any_missing' = FALSE
    /\ trace' = None
    /\ ci' = 0
    /\ pending' = None
    /\ result' = None
    /\ log' = << >>
    /\ traces' = None
    /\ potential_asset' = None
    /\ pc' = "loop"
    /\ storage0' = storage
    /\ UNCHANGED << storage, tracing, checkers, faults >>

\* an engine call (transact_raw, call_raw, insert_account_storage) may return
\* an error at this point
EngineMayFail == faults < MaxFaults /\ iteration < FaultWindow

\* the first run on a simulator just built
Begin(c, af, mi) ==
    /\ pc = "idle"
    /\ Enter(c, af, mi)
    /\ UNCHANGED last_report

CheckTransaction_NoFix == \E c \in Calls : Begin(c, FALSE, DefaultMaxIterations)

\* check_transaction(call)
CheckTransaction == \E c \in Calls : Begin(c, TRUE, DefaultMaxIterations)

\* check_transaction_with_options(call, auto_fix, max_iterations)
CheckTransactionWithOptions ==
    \E c \in Calls, af \in BOOLEAN, mi \in 0 .. MaxIter : Begin(c, af, mi)

LoopExit_OffByOne ==
    /\ pc = "loop"
    /\ iteration > max_iterations
    /\ pc' = "aggregate"
    /\ UNCHANGED << storage, storage0, tracing, checkers, runs, call, auto_fix, max_iterations,
                    iteration, all_missing_assets, found_any_missing, trace, ci,
                    pending, result, log, faults, traces, potential_asset,
                    last_report >>

\* the for-loop is exhausted
LoopExit ==
    /\ pc = "loop"
    /\ iteration >= max_iterations
    /\ pc' = "aggregate"
    /\ UNCHANGED << storage, storage0, tracing, checkers, runs, call, auto_fix, max_iterations,
                    iteration, all_missing_assets, found_any_missing, trace, ci,
                    pending, result, log, faults, traces, potential_asset,
                    last_report >>

TransactFail_Swallow ==
    /\ pc = "loop"
    /\ iteration < max_iterations
    /\ EngineMayFail
    /\ faults' = faults + 1
    /\ log' = Append(log, [op |-> "transact_raw", ok |-> FALSE])
    /\ pc' = "aggregate"
    /\ UNCHANGED << storage, storage0, tracing, checkers, runs, call, auto_fix, max_iterations,
                    iteration, all_missing_assets, found_any_missing, trace, ci, pending,
                    result, traces, potential_asset, last_report >>

\* transact_raw fails: the ? returns the error
TransactFail ==
    /\ pc = "loop"
    /\ iteration < max_iterations
    /\ EngineMayFail
    /\ faults' = faults + 1
    /\ log' = Append(log, [op |-> "transact_raw", ok |-> FALSE])
    /\ result' = Err("transact_raw")
    /\ pc' = "done"
    /\ UNCHANGED << storage, storage0, tracing, checkers, runs, call, auto_fix, max_iterations,
                    iteration, all_missing_assets, found_any_missing, trace, ci, pending,
                    traces, potential_asset, last_report >>

\* result.traces: the call tree, recorded when the executor traces
result_traces(r) == IF tracing THEN Some(r.nodes) ELSE None

\* the node the checkers are shown: result.traces, then find_last_non_proxy_call
select(r) == IF tracing THEN find_last_non_proxy_call(r.nodes) ELSE None

Simulated_NoBreak(r, sel) ==
    /\ storage' = r.st
    /\ log' = Append(log, [op |-> "transact_raw", ok |-> TRUE, reverted |-> r.reverted,
                           selected |-> IF r.reverted THEN sel ELSE None])
    /\ traces' = result_traces(r)
    /\ found_any_missing' = FALSE
    /\ trace' = sel
    /\ IF IsSome(sel) /\ Len(checkers) > 0
       THEN pc' = "check" /\ ci' = 1
       ELSE pc' = "end_iter" /\ ci' = 0

\* the loop body up to the checkers, given transact_raw's result r and the
\* selected node sel
Simulated(r, sel) ==
    /\ storage' = r.st
    /\ log' = Append(log, [op |-> "transact_raw", ok |-> TRUE, reverted |-> r.reverted,
                           selected |-> IF r.reverted THEN sel ELSE None])
    /\ traces' = result_traces(r)
    /\ found_any_missing' = FALSE
    /\ IF ~r.reverted
       THEN /\ pc' = "aggregate"
            /\ UNCHANGED << trace, ci >>
       ELSE /\ trace' = sel
            /\ IF IsSome(sel) /\ Len(checkers) > 0
               THEN pc' = "check" /\ ci' = 1
               ELSE pc' = "end_iter" /\ ci' = 0

Transact_AtLeastOnce ==
    /\ pc = "loop"
    /\ iteration < max_iterations \/ (iteration = 0 /\ log = << >>)
    /\ \E r \in {Execute(storage, call)} : \E sel \in {select(r)} : Simulated(r, sel)
    /\ UNCHANGED << storage0, tracing, checkers, runs, call, auto_fix, max_iterations,
                    iteration, all_missing_assets, pending, result, faults,
                    potential_asset, last_report >>

Transact_NoCap ==
    /\ pc = "loop"
    /\ \E r \in {Execute(storage, call)} : \E sel \in {select(r)} : Simulated(r, sel)
    /\ UNCHANGED << storage0, tracing, checkers, runs, call, auto_fix, max_iterations,
                    iteration, all_missing_assets, pending, result, faults,
                    potential_asset, last_report >>

\* transact_raw, the revert test and the trace selection of one iteration
Transact ==
    /\ pc = "loop"
    /\ iteration < max_iterations
    /\ \E r \in {Execute(storage, call)} : \E sel \in {select(r)} : Simulated(r, sel)
    /\ UNCHANGED << storage0, tracing, checkers, runs, call, auto_fix, max_iterations,
                    iteration, all_missing_assets, pending, result, faults,
                    potential_asset, last_report >>

\* the position after checker ci has been handled
NextChecker ==
    IF ci < Len(checkers)
    THEN pc' = "check" /\ ci' = ci + 1
    ELSE pc' = "end_iter" /\ ci' = ci

\* whether call_raw's Result carries an output that decodes as a balance
Decodes(raw) ==
    IsOk(raw) /\ IsSome(raw.ok.out) /\ IsSome(abi_decode_returns(raw.ok.out.some))

Matched_SkipDeal(asset, res, raw) ==
    /\ log' = Append(log, [op |-> "check_balance", checker |-> ci, ok |-> IsOk(res),
                           decoded |-> Decodes(raw), res |-> res,
                           recorded |-> IsOk(res) /\ res.ok.missing_amount > U256_ZERO])
    /\ UNCHANGED << result, pending >>
    /\ NextChecker
    /\ IF IsOk(res) /\ res.ok.missing_amount > U256_ZERO
       THEN /\ all_missing_assets' = Append(all_missing_assets, res.ok)
            /\ found_any_missing' = TRUE
       ELSE UNCHANGED << all_missing_assets, found_any_missing >>

Matched_Abort(asset, res, raw) ==
    /\ log' = Append(log, [op |-> "check_balance", checker |-> ci, ok |-> IsOk(res),
                           decoded |-> Decodes(raw), res |-> res,
                           recorded |-> IsOk(res) /\ res.ok.missing_amount > U256_ZERO])
    /\ IF IsErr(res)
       THEN /\ result' = res
            /\ pc' = "done"
            /\ UNCHANGED << all_missing_assets, found_any_missing, pending, ci >>
       ELSE IF res.ok.missing_amount > U256_ZERO
       THEN /\ all_missing_assets' = Append(all_missing_assets, res.ok)
            /\ found_any_missing' = TRUE
            /\ UNCHANGED result
            /\ IF auto_fix
               THEN /\ pending' = Some([asset |-> asset, missing |-> res.ok])
                    /\ pc' = "deal"
                    /\ ci' = ci
               ELSE /\ NextChecker
                    /\ UNCHANGED pending
       ELSE /\ NextChecker
            /\ UNCHANGED << all_missing_assets, found_any_missing, pending, result >>

\* the match on check_balance's result res for the candidate `asset`;
\* raw is the Result of the balance query behind it
Matched(asset, res, raw) ==
    /\ log' = Append(log, [op |-> "check_balance", checker |-> ci, ok |-> IsOk(res),
                           decoded |-> Decodes(raw), res |-> res,
                           recorded |-> IsOk(res) /\ res.ok.missing_amount > U256_ZERO])
    /\ UNCHANGED result
    /\ IF IsOk(res) /\ res.ok.missing_amount > U256_ZERO
       THEN /\ all_missing_assets' = Append(all_missing_assets, res.ok)
            /\ found_any_missing' = TRUE
            /\ IF auto_fix
               THEN /\ pending' = Some([asset |-> asset, missing |-> res.ok])
                    /\ pc' = "deal"
                    /\ ci' = ci
               ELSE /\ NextChecker
                    /\ UNCHANGED pending
       ELSE /\ NextChecker
            /\ UNCHANGED << all_missing_assets, found_any_missing, pending >>

\* checker ci with candidate p (identify_asset's Option)
Consult(p) ==
    /\ potential_asset' = p
    /\ IF ~IsSome(p)
       THEN /\ NextChecker
            /\ UNCHANGED << all_missing_assets, found_any_missing, pending, log, faults,
                            result >>
       ELSE \E fault \in {f \in BOOLEAN : f => EngineMayFail} :
               /\ faults' = IF fault THEN faults + 1 ELSE faults
               /\ Matched(p.some, check_balance(p.some, storage, fault),
                          call_raw(storage, p.some.token_address, p.some.account, fault))

\* checker ci: identify_asset, then check_balance and the match on its result
Check ==
    /\ pc = "check"
    /\ \E p \in {identify_asset(trace.some)} : Consult(p)
    /\ UNCHANGED << storage, storage0, tracing, checkers, runs, call, auto_fix, max_iterations,
                    iteration, trace, traces, last_report >>

Dealt_Swallow(recipient, asset_spec, d) ==
    /\ storage' = d.st
    /\ log' = Append(log, [op |-> "deal", checker |-> ci, ok |-> IsOk(d.res),
                           read_back |-> d.read_back, recipient |-> recipient,
                           asset_spec |-> asset_spec])
    /\ pending' = None
    /\ NextChecker
    /\ UNCHANGED result

\* checker.deal(recipient, asset_spec, ..)?: the ? on deal's result d
Dealt(recipient, asset_spec, d) ==
    /\ storage' = d.st
    /\ log' = Append(log, [op |-> "deal", checker |-> ci, ok |-> IsOk(d.res),
                           read_back |-> d.read_back, recipient |-> recipient,
                           asset_spec |-> asset_spec])
    /\ pending' = None
    /\ IF IsErr(d.res)
       THEN /\ result' = d.res
            /\ pc' = "done"
            /\ ci' = ci
       ELSE /\ NextChecker
            /\ UNCHANGED result

\* the engine failures deal can meet with context ctx: [failAt, fault], at
\* most one of a refused write and a failed read-back
DealFaults(ctx) ==
    {f \in (0 .. Len(ctx.storage_accesses)) \X BOOLEAN :
        /\ (f[1] > 0 \/ f[2]) => EngineMayFail
        /\ f[2] => (f[1] = 0 /\ ctx.storage_accesses # << >>)}

DealWith_Sender(missing, ctx) ==
    \E f \in DealFaults(ctx) :
        /\ faults' = IF f[1] > 0 \/ f[2] THEN faults + 1 ELSE faults
        /\ \E d \in {deal(call.from, missing.required, storage, ctx, f[1], f[2])} :
              Dealt(call.from, missing.required, d)

\* deal for measurement `missing` with context ctx
DealWith(missing, ctx) ==
    \E f \in DealFaults(ctx) :
        /\ faults' = IF f[1] > 0 \/ f[2] THEN faults + 1 ELSE faults
        /\ \E d \in {deal(missing.account, missing.required, storage, ctx, f[1], f[2])} :
              Dealt(missing.account, missing.required, d)

\* checker ci: deal for the shortfall just recorded
Deal ==
    /\ pc = "deal"
    /\ DealWith(pending.some.missing, from_trace(pending.some.asset, trace.some))
    /\ UNCHANGED << storage0, tracing, checkers, runs, call, auto_fix, max_iterations,
                    iteration, all_missing_assets, found_any_missing, trace, traces,
                    potential_asset, last_report >>

EndIteration_AlwaysContinue ==
    /\ pc = "end_iter"
    /\ IF found_any_missing
       THEN pc' = "loop" /\ iteration' = iteration + 1
       ELSE pc' = "aggregate" /\ iteration' = iteration
    /\ UNCHANGED << storage, storage0, tracing, checkers, runs, call, auto_fix, max_iterations,
                    all_missing_assets, found_any_missing, trace, ci, pending,
                    result, log, faults, traces, potential_asset, last_report >>

EndIteration_Aggregating ==
    /\ pc = "end_iter"
    /\ IF auto_fix /\ found_any_missing
       THEN pc' = "loop" /\ iteration' = iteration + 1
       ELSE pc' = "aggregate" /\ iteration' = iteration
    /\ all_missing_assets' = aggregate_missing_assets(all_missing_assets)
    /\ log' = Append(log, [op |-> "aggregate"])
    /\ UNCHANGED << storage, storage0, tracing, checkers, runs, call, auto_fix, max_iterations,
                    found_any_missing, trace, ci, pending,
                    result, faults, traces, potential_asset, last_report >>

EndIteration_ContinueOnAutoFix ==
    /\ pc = "end_iter"
    /\ IF auto_fix
       THEN pc' = "loop" /\ iteration' = iteration + 1
       ELSE pc' = "aggregate" /\ iteration' = iteration
    /\ UNCHANGED << storage, storage0, tracing, checkers, runs, call, auto_fix, max_iterations,
                    all_missing_assets, found_any_missing, trace, ci, pending,
                    result, log, faults, traces, potential_asset, last_report >>

\* the end of the loop body: continue or break
EndIteration ==
    /\ pc = "end_iter"
    /\ IF auto_fix /\ found_any_missing
       THEN pc' = "loop" /\ iteration' = iteration + 1
       ELSE pc' = "aggregate" /\ iteration' = iteration
    /\ UNCHANGED << storage, storage0, tracing, checkers, runs, call, auto_fix, max_iterations,
                    all_missing_assets, found_any_missing, trace, ci, pending,
                    result, log, faults, traces, potential_asset, last_report >>

\* the Vec handed back: some order of the map's values
Returned(agg) == \E f \in Orders(Len(agg)) : result' = Ok(Permuted(agg, f))

\* Ok(Self::aggregate_missing_assets(all_missing_assets))
Return ==
    /\ pc = "aggregate"
    /\ Returned(aggregate_missing_assets(all_missing_assets))
    /\ log' = Append(log, [op |-> "aggregate"])
    /\ pc' = "done"
    /\ UNCHANGED << storage, storage0, tracing, checkers, runs, call, auto_fix, max_iterations,
                    iteration, all_missing_assets, found_any_missing, trace, ci, pending,
                    faults, traces, potential_asset, last_report >>

Next ==
    \/ CheckTransaction
    \/ CheckTransactionWithOptions
    \/ LoopExit
    \/ TransactFail
    \/ Transact
    \/ Check
    \/ Deal
    \/ EndIteration
    \/ Return

Spec == Init /\ [][Next]_vars

----------------------------------------------------------------------------
(* A run whose engine and checker calls all return *)

\* the steps of a run under way: each is one synchronous call of the
\* single-threaded function, taken as soon as the previous one returned
RunStep ==
    \/ LoopExit
    \/ TransactFail
    \/ Transact
    \/ Check
    \/ Deal
    \/ EndIteration
    \/ Return

\* calls of each outcome: a transfer that succeeds or is cured by one deal, one
\* no deal cures, one through the proxy, a transferFrom, a call into a
\* contract that reverts whatever it is sent, and a batch over two tokens
LiveCalls ==
    {MkCall(A1, T1, transferData(A2, 1)),
     MkCall(A1, T1, transferData(A2, large_balance + 1)),
     MkCall(A1, T2, transferData(A2, 1)),
     MkCall(A2, T1, transferFromData(A1, A2, 1)),
     MkCall(A1, XC, transferData(A2, 1)),
     MkCall(A1, MC, aggregateData(<< Leg(T1, transferData(A2, 1)),
                                     Leg(T2, transferData(A2, 1)) >>))}

\* check_transaction(call)
LiveCheckTransaction == \E c \in LiveCalls : Begin(c, TRUE, DefaultMaxIterations)

\* check_transaction_with_options(call, auto_fix, max_iterations)
LiveCheckTransactionWithOptions ==
    \E c \in LiveCalls, af \in BOOLEAN, mi \in 0 .. MaxIter : Begin(c, af, mi)

NextLive ==
    \/ LiveCheckTransaction
    \/ LiveCheckTransactionWithOptions
    \/ RunStep

SpecLive == Init /\ [][NextLive]_vars /\ WF_vars(RunStep)

----------------------------------------------------------------------------
(* Several runs on one simulator *)

\* a simulator built with with_erc20_checker(), tracing on
InitRuns ==
    /\ Init
    /\ tracing
    /\ checkers = << AssetType_ERC20 >>

Rerun_Reentrant ==
    /\ pc # "idle"
    /\ runs < MaxRuns
    /\ Enter(call, auto_fix, max_iterations)
    /\ last_report' = result

\* the caller repeats the call it made, on the same simulator, after the
\* previous run returned: the run holds the simulator's &mut borrow until then
Rerun ==
    /\ pc = "done"
    /\ runs < MaxRuns
    /\ Enter(call, auto_fix, max_iterations)
    /\ last_report' = result

NextRuns ==
    \/ Next
    \/ Rerun

SpecRuns == InitRuns /\ [][NextRuns]_vars

----------------------------------------------------------------------------
(* The trace selector on its own: find_last_non_proxy_call over call trees *)

\* call nodes of a tree: either kind, two targets, two payloads
SyntheticNodes ==
    {Node(k, MC, a, transferData(A2, v), << >>) :
        k \in {CallKind_Call, CallKind_DelegateCall}, a \in Tokens, v \in Amounts}

SyntheticTraces == UNION {[1 .. n -> SyntheticNodes] : n \in 0 .. MaxTraceLen}

\* a simulator with the ERC20 checker, outside any run, about to apply one
\* of its functions (position p)
Harness(p) ==
    /\ storage = InitStorage(0, 0)
    /\ storage0 = storage
    /\ tracing = TRUE
    /\ checkers = << AssetType_ERC20 >>
    /\ runs = 0
    /\ pc = p
    /\ call = None
    /\ auto_fix = FALSE
    /\ max_iterations = 0
    /\ iteration = 0
    /\ all_missing_assets = << >>
    /\ found_any_missing = FALSE
    /\ ci = 0
    /\ pending = None
    /\ result = None
    /\ log = << >>
    /\ faults = 0
    /\ last_report = None

InitSel ==
    /\ Harness("select")
    /\ traces \in {Some(t) : t \in SyntheticTraces}
    /\ trace = None
    /\ potential_asset = None

\* find_last_non_proxy_call(&traces)
SelectTrace ==
    /\ pc = "select"
    /\ trace' = find_last_non_proxy_call(traces.some)
    /\ pc' = "selected"
    /\ UNCHANGED << storage, storage0, tracing, checkers, runs, call, auto_fix, max_iterations,
                    iteration, all_missing_assets, found_any_missing, ci, pending,
                    result, log, faults, traces, potential_asset, last_report >>

NextSel == SelectTrace

SpecSel == InitSel /\ [][NextSel]_vars

----------------------------------------------------------------------------
(* The ERC20 checker's identify_asset on its own, over call nodes *)

\* payloads a call node can carry: the two transfer shapes, the allowance
\* calls, other calls, no calldata, and calldata cut short
IdentPayloads ==
    {transferData(A2, v) : v \in Amounts}
        \cup {transferFromData(A1, A2, v) : v \in Amounts}
        \cup {approveData(A2, 1), allowanceData(A1, A2), aggregateData(<< >>), emptyData,
              Payload(SelTransfer, << A2 >>), Payload(SelTransferFrom, << A1, A2 >>)}

IdentNodes ==
    {Node(k, c, a, d, << >>) :
        k \in {CallKind_Call, CallKind_DelegateCall}, c \in {A2, MC}, a \in {T1, XC},
        d \in IdentPayloads}

InitIdent ==
    /\ Harness("identify")
    /\ traces = None
    /\ trace \in {Some(n) : n \in IdentNodes}
    /\ potential_asset = None

\* checker.identify_asset(trace)
Identify ==
    /\ pc = "identify"
    /\ potential_asset' = identify_asset(trace.some)
    /\ pc' = "identified"
    /\ UNCHANGED << storage, storage0, tracing, checkers, runs, call, auto_fix, max_iterations,
                    iteration, all_missing_assets, found_any_missing, trace, ci, pending,
                    result, log, faults, traces, last_report >>

NextIdent == Identify

SpecIdent == InitIdent /\ [][NextIdent]_vars

----------------------------------------------------------------------------
(* Properties *)

Ops(name) == {i \in DOMAIN log : log[i].op = name}
Executions == Cardinality(Ops("transact_raw"))
EngineFailed == \E i \in Ops("transact_raw") : ~log[i].ok
DealFailed == \E i \in Ops("deal") : ~log[i].ok
FirstExecutionSucceeded ==
    Len(log) >= 1 /\ log[1].op = "transact_raw" /\ log[1].ok /\ ~log[1].reverted
DefaultOptions == auto_fix /\ max_iterations = DefaultMaxIterations
Entry(account, token, amount, current, missing) ==
    [account |-> account, required |-> ERC20(token, amount),
     current_balance |-> current, missing_amount |-> missing]

\* C1: one run performs at most max_iterations engine executions
\* (transact_raw calls), whatever the call, auto_fix and the shortfalls found,
\* and whether or not deal cures the revert.
C1_ExecutionsBounded == Executions <= max_iterations

\* C1 witness: a default run whose revert deal never cures uses the whole cap
C1_Witness ==
    /\ pc = "done"
    /\ IsOk(result)
    /\ max_iterations = DefaultMaxIterations
    /\ Executions = max_iterations
    /\ Len(all_missing_assets) >= max_iterations

\* C2: when the engine execution of the call does not revert, the run returns
\* Ok with an empty sequence and performs no balance query and no deal, for
\* either auto_fix value, any cap and any set of checkers.
C2_SuccessReturnsEmpty ==
    FirstExecutionSucceeded =>
        /\ Ops("check_balance") = {}
        /\ Ops("deal") = {}
        /\ Executions = 1
        /\ pc = "done" => result = Ok(<< >>)

\* C2 witness: a transfer the sender can afford, with a checker registered
C2_Witness ==
    /\ pc = "done"
    /\ FirstExecutionSucceeded
    /\ call.data.sel = SelTransfer
    /\ call.to = T1
    /\ Len(checkers) >= 1
    /\ tracing
    /\ result = Ok(<< >>)

\* the call is transfer(to, amount) on a token, the sender holds nothing and
\* nothing else makes it revert
ZeroBalanceTransfer ==
    /\ call # None
    /\ call.data.sel = SelTransfer
    /\ call.to \in Tokens
    /\ call.from # ADDR_ZERO
    /\ call.data.args[1] # ADDR_ZERO
    /\ call.data.args[2] > 0
    /\ storage0[call.to][BalSlot(call.from)] = 0
    /\ storage0[call.to][BalSlot(call.data.args[1])] + call.data.args[2] <= U256_MAX

\* C3 (as claimed): check_transaction with the ERC20 checker on a transfer
\* that reverts solely because the sender holds zero tokens returns exactly
\* one entry: account = sender, required = ERC20{token, amount},
\* current_balance = 0, missing_amount = amount.
C3_Claimed ==
    ( /\ pc = "done"
      /\ ZeroBalanceTransfer
      /\ DefaultOptions
      /\ checkers = << AssetType_ERC20 >>
      /\ tracing
      /\ faults = 0 )
    => result = Ok(<< Entry(call.from, call.to, call.data.args[2], 0,
                            call.data.args[2]) >>)

\* the call is transferFrom(from, to, amount) on a token, the spender's
\* allowance is below the amount and the debited account holds the amount
AllowanceOnlyRevert ==
    /\ call # None
    /\ call.data.sel = SelTransferFrom
    /\ call.to \in Tokens
    /\ storage0[call.to][AllowSlot(call.data.args[1], call.from)] < call.data.args[3]
    /\ storage0[call.to][BalSlot(call.data.args[1])] >= call.data.args[3]

\* C4: a transferFrom that reverts only for want of allowance, the debited
\* account holding at least the amount, records no shortfall, applies no
\* deal and returns Ok with an empty sequence.
C4_AllowanceNotShortfall ==
    AllowanceOnlyRevert =>
        /\ all_missing_assets = << >>
        /\ Ops("deal") = {}
        /\ (pc = "done" /\ ~EngineFailed) => result = Ok(<< >>)

\* C4 witness: such a run in which the balance was in fact queried
C4_Witness ==
    /\ pc = "done"
    /\ AllowanceOnlyRevert
    /\ DefaultOptions
    /\ \E i \in Ops("check_balance") : log[i].ok /\ log[i].decoded
    /\ result = Ok(<< >>)

\* the call is a Multicall3.aggregate of two transfers on two distinct tokens,
\* each for more than the multicall contract (the debited account) holds
TwoTokenBatch ==
    /\ call # None
    /\ call.to = MC
    /\ call.data.sel = SelAggregate
    /\ Len(call.data.args) = 2
    /\ call.data.args[1].target # call.data.args[2].target
    /\ \A k \in 1 .. 2 :
          /\ call.data.args[k].target \in Tokens
          /\ call.data.args[k].callData.sel = SelTransfer
          /\ call.data.args[k].callData.args[2]
                > storage0[call.data.args[k].target][BalSlot(MC)]

\* C5 (as claimed): with auto-fix and the ERC20 checker, such a batch returns
\* exactly two entries, one per token, each with the amount its leg requested.
C5_Claimed ==
    ( /\ pc = "done"
      /\ TwoTokenBatch
      /\ DefaultOptions
      /\ checkers = << AssetType_ERC20 >>
      /\ tracing
      /\ faults = 0 )
    => /\ IsOk(result)
       /\ Len(result.ok) = 2
       /\ \A k \in 1 .. 2 :
             \E i \in 1 .. 2 :
                 result.ok[i].required =
                     ERC20(call.data.args[k].target, call.data.args[k].callData.args[2])

\* the recorded list holds exactly two entries, both for the same account and
\* the same token
TwoEntriesOnePair ==
    /\ Len(all_missing_assets) = 2
    /\ all_missing_assets[1].account = all_missing_assets[2].account
    /\ all_missing_assets[1].required.tag = "ERC20"
    /\ all_missing_assets[2].required.tag = "ERC20"
    /\ all_missing_assets[1].required.token = all_missing_assets[2].required.token

\* C6 (as claimed): aggregate_missing_assets on a list of two entries for the
\* same (account, token) with shortfalls S1 and S2 yields exactly one entry
\* for that pair, with missing_amount = S1 + S2 (a sum of 256-bit words),
\* whether the two required amounts are equal or different.
C6_Claimed ==
    TwoEntriesOnePair =>
        /\ Len(aggregate_missing_assets(all_missing_assets)) = 1
        /\ aggregate_missing_assets(all_missing_assets)[1].account
              = all_missing_assets[1].account
        /\ aggregate_missing_assets(all_missing_assets)[1].required.token
              = all_missing_assets[1].required.token
        /\ aggregate_missing_assets(all_missing_assets)[1].missing_amount
              = wrapping_add(all_missing_assets[1].missing_amount,
                             all_missing_assets[2].missing_amount)

\* C7 (as claimed): a returned sequence never holds two entries with the same
\* account and the same token address.
C7_Claimed ==
    (pc = "done" /\ IsOk(result)) =>
        \A i, j \in 1 .. Len(result.ok) :
            ( /\ result.ok[i].account = result.ok[j].account
              /\ result.ok[i].required.token = result.ok[j].required.token )
            => i = j

\* C8: a deal error is returned to the caller and stops the run at once: the
\* failed deal is the run's last engine operation, no later checker is
\* consulted and no later execution happens.
C8_DealErrorIsFatal ==
    \A i \in Ops("deal") :
        ~log[i].ok =>
            /\ i = Len(log)
            /\ pc = "done"
            /\ IsErr(result)
            /\ ci = log[i].checker

\* C8 witness: a deal fails while another checker and further iterations remain
C8_Witness ==
    /\ pc = "done"
    /\ DealFailed
    /\ IsErr(result)
    /\ ci < Len(checkers)
    /\ iteration + 1 < max_iterations

\* C9: an error of one checker's check_balance never aborts the run: nothing
\* is recorded for it, the next checker of the iteration is consulted (or the
\* iteration ends), and unless the engine execution or a deal fails the run
\* returns Ok with the aggregation of what was recorded.
C9_CheckErrorNotFatal ==
    /\ \A i \in Ops("check_balance") :
          ~log[i].ok =>
              /\ ~log[i].recorded
              /\ IF i < Len(log)
                 THEN IF log[i].checker < Len(checkers)
                      THEN /\ log[i + 1].op = "check_balance"
                           /\ log[i + 1].checker = log[i].checker + 1
                      ELSE log[i + 1].op \in {"transact_raw", "aggregate"}
                 ELSE /\ result = None
                      /\ IF log[i].checker < Len(checkers)
                         THEN pc = "check" /\ ci = log[i].checker + 1
                         ELSE pc \in {"end_iter", "loop", "aggregate"}
    /\ (pc = "done" /\ ~EngineFailed /\ ~DealFailed) =>
          /\ IsOk(result)
          /\ Len(result.ok) = Len(aggregate_missing_assets(all_missing_assets))
          /\ \A k \in 1 .. Len(result.ok) :
                \E m \in 1 .. Len(result.ok) :
                    result.ok[k] = aggregate_missing_assets(all_missing_assets)[m]

\* C9 witness: the first checker's balance query fails, the second records a
\* shortfall and the run returns it
C9_Witness ==
    /\ pc = "done"
    /\ IsOk(result)
    /\ Len(result.ok) >= 1
    /\ \E i \in Ops("check_balance") :
          /\ ~log[i].ok
          /\ log[i].checker = 1
          /\ i < Len(log)
          /\ log[i + 1].op = "check_balance"
          /\ log[i + 1].recorded

\* C10 (as claimed): when the balance query returns no output, or output that
\* does not decode as a balance, the checker reports no shortfall this round:
\* nothing is recorded and no deal follows.
C10_Claimed ==
    \A i \in Ops("check_balance") :
        (log[i].ok /\ ~log[i].decoded) =>
            /\ ~log[i].recorded
            /\ i < Len(log) => log[i + 1].op # "deal"

\* C11: when an engine execution (transact_raw) fails, in whatever iteration,
\* the run ends there with an error and never with an Ok list, also when
\* shortfalls were recorded before.
C11_EngineErrorReturned ==
    \A i \in Ops("transact_raw") :
        ~log[i].ok =>
            /\ i = Len(log)
            /\ pc = "done"
            /\ IsErr(result)

\* C11 witness: the execution fails in a later iteration, after a shortfall was
\* recorded and dealt
C11_Witness ==
    /\ pc = "done"
    /\ EngineFailed
    /\ IsErr(result)
    /\ iteration >= 1
    /\ all_missing_assets # << >>

\* node i of the tree is a pure pass-through proxy hop: a delegate-call whose
\* calldata is byte-identical to that of the node one position before it
PureProxy(arena, i) ==
    /\ i > 1
    /\ arena[i].kind = CallKind_DelegateCall
    /\ arena[i].data = arena[i - 1].data

\* C12 (as claimed): the walk skips every delegate-call node whose calldata is
\* identical to that of the node one position before it, so the node it
\* returns is that predecessor or an earlier node, never such a hop.
C12_Claimed ==
    (pc = "selected" /\ Len(traces.some) > 0) =>
        /\ selected_index(traces.some) \in 1 .. Len(traces.some)
        /\ trace = Some(traces.some[selected_index(traces.some)])
        /\ ~PureProxy(traces.some, selected_index(traces.some))

\* C13 (as claimed): the last executed node is returned whenever it is not a
\* delegate-call, or is a delegate-call whose calldata differs from that of
\* the node one position before it.
C13_Claimed ==
    ( /\ pc = "selected"
      /\ Len(traces.some) > 0
      /\ ~PureProxy(traces.some, Len(traces.some)) )
    => /\ selected_index(traces.some) = Len(traces.some)
       /\ trace = Some(traces.some[Len(traces.some)])

\* C14: for an empty tree the selector returns nothing; the chronologically
\* first node is accepted whatever its kind, so for every non-empty tree the
\* selector returns one of its nodes.
C14_Boundary ==
    pc = "selected" =>
        IF traces.some = << >>
        THEN trace = None
        ELSE /\ is_non_proxy(traces.some, traces.some[1])
             /\ selected_index(traces.some) \in 1 .. Len(traces.some)
             /\ trace = Some(traces.some[selected_index(traces.some)])

\* C14 witness: every later node is skipped and the walk ends on the first
\* node, itself a delegate-call
C14_Witness ==
    /\ pc = "selected"
    /\ Len(traces.some) >= 2
    /\ traces.some[1].kind = CallKind_DelegateCall
    /\ selected_index(traces.some) = 1
    /\ trace = Some(traces.some[1])

\* the measurement m has missing_amount = max(0, required - current) as a word
ExactShortfall(m) ==
    /\ m.missing_amount \in 0 .. U256_MAX
    /\ m.missing_amount =
          IF m.current_balance >= m.required.amount
          THEN 0
          ELSE m.required.amount - m.current_balance

\* C15: every MissingAssetInfo returned by check_balance has missing_amount =
\* max(0, required_amount - current_balance): 0 whenever the balance covers
\* the amount, the plain difference otherwise, never a wrapped value.
C15_MissingIsSaturatingDifference ==
    \A i \in Ops("check_balance") : log[i].ok => ExactShortfall(log[i].res.ok)

\* C15 witness: one run measured a balance below the amount and, after the
\* first checker's deal, a balance above it
C15_Witness ==
    /\ \E i \in Ops("check_balance") :
          /\ log[i].ok
          /\ log[i].res.ok.current_balance < log[i].res.ok.required.amount
          /\ log[i].res.ok.missing_amount > 0
    /\ \E j \in Ops("check_balance") :
          /\ log[j].ok
          /\ log[j].res.ok.current_balance > log[j].res.ok.required.amount
          /\ log[j].res.ok.missing_amount = 0

\* the candidate the claim describes for node t, debited account and amount
ClaimedCandidate(t, account, amount) ==
    Some([asset_type |-> AssetType_ERC20, token_address |-> t.address,
          account |-> account, required_amount |-> amount])

\* C16: identify_asset returns, for a transfer(to, amount) payload, the
\* candidate with account = the node's caller, and for a
\* transferFrom(from, to, amount) payload the candidate with account = from;
\* in both the asset location is the node's target address and the required
\* amount is the decoded amount (transfer is tried first).
C16_IdentifiedCandidate ==
    pc = "identified" =>
        /\ (trace.some.data.sel = SelTransfer /\ Len(trace.some.data.args) = 2) =>
              potential_asset =
                  ClaimedCandidate(trace.some, trace.some.caller, trace.some.data.args[2])
        /\ (trace.some.data.sel = SelTransferFrom /\ Len(trace.some.data.args) = 3) =>
              potential_asset =
                  ClaimedCandidate(trace.some, trace.some.data.args[1],
                                   trace.some.data.args[3])

\* C16 witness: a transferFrom node whose from argument is not its caller
C16_Witness ==
    /\ pc = "identified"
    /\ trace.some.data.sel = SelTransferFrom
    /\ IsSome(potential_asset)
    /\ potential_asset.some.account = trace.some.data.args[1]
    /\ potential_asset.some.account # trace.some.caller
    /\ potential_asset.some.token_address = trace.some.address

\* C17: identify_asset returns nothing for a node whose payload is an approve
\* or allowance call, or anything else that is neither a transfer nor a
\* transferFrom call.
C17_NoCandidateForOtherCalls ==
    (pc = "identified" /\ trace.some.data.sel \notin {SelTransfer, SelTransferFrom}) =>
        potential_asset = None

\* C17 witness: an approve node was shown to the checker and yielded nothing
C17_Witness ==
    /\ pc = "identified"
    /\ trace.some.data.sel = SelApprove
    /\ trace.some.address = T1
    /\ potential_asset = None

\* sequences a and b hold the same entries, in some order
SameEntries(a, b) ==
    /\ Len(a) = Len(b)
    /\ \E f \in Orders(Len(a)) : Permuted(b, f) = a

\* the measurements recorded so far, as logged, oldest first
Recorded == SelectSeq(log, LAMBDA e : e.op = "check_balance" /\ e.recorded)

MatchesHistory(rec) ==
    /\ Len(all_missing_assets) = Len(rec)
    /\ \A k \in 1 .. Len(rec) : all_missing_assets[k] = rec[k].res.ok

\* all_missing_assets is exactly the recorded measurements, oldest first
HistoryIsComplete == MatchesHistory(Recorded)

\* C18: with auto_fix disabled a run performs at most one engine execution
\* (exactly one when max_iterations >= 1), never invokes deal, leaves the
\* simulated storage as the executed call itself left it (no forced write),
\* and returns the aggregation of the shortfalls measured in that iteration.
C18_NoFixWithoutAutoFix ==
    (pc # "idle" /\ ~auto_fix) =>
        /\ Ops("deal") = {}
        /\ Executions <= 1
        /\ iteration = 0
        /\ storage = IF \E i \in Ops("transact_raw") : log[i].ok
                     THEN Execute(storage0, call).st
                     ELSE storage0
        /\ (pc = "done" /\ IsOk(result)) =>
              /\ max_iterations >= 1 => Executions = 1
              /\ HistoryIsComplete
              /\ SameEntries(result.ok, aggregate_missing_assets(all_missing_assets))

\* C18 witness: a cap above one, a shortfall measured, and still one execution
C18_Witness ==
    /\ pc = "done"
    /\ ~auto_fix
    /\ max_iterations >= 2
    /\ IsOk(result)
    /\ Len(result.ok) >= 1
    /\ Executions = 1
    /\ storage = storage0

\* two values returned by check_transaction report the same thing
SameReport(a, b) ==
    IF IsOk(a) /\ IsOk(b) THEN SameEntries(a.ok, b.ok) ELSE a = b

\* C19 (as claimed): what one run changed in the simulated state is not
\* visible to a later run on the same simulator, so the same call repeated
\* (no engine failure in either run) yields the same report.
C19_Claimed ==
    (pc = "done" /\ runs = 2 /\ faults = 0) => SameReport(result, last_report)

\* C20: aggregation runs at most once in a run, only after the loop has
\* exited (it is the run's last operation), never between iterations; every
\* run that returns Ok ran it exactly once, over all the shortfalls recorded
\* in all iterations.
C20_AggregatesOnceAtExit ==
    /\ Cardinality(Ops("aggregate")) <= 1
    /\ \A i \in Ops("aggregate") : i = Len(log) /\ pc = "done"
    /\ HistoryIsComplete
    /\ (pc = "done" /\ IsOk(result)) =>
          /\ Cardinality(Ops("aggregate")) = 1
          /\ SameEntries(result.ok, aggregate_missing_assets(all_missing_assets))

\* C20 witness: the cap is reached after several iterations that each
\* recorded a shortfall, and the one aggregation closes the run
C20_Witness ==
    /\ pc = "done"
    /\ IsOk(result)
    /\ iteration = max_iterations
    /\ iteration >= 2
    /\ Len(all_missing_assets) >= 2
    /\ Cardinality(Ops("aggregate")) = 1
    /\ log[Len(log)].op = "aggregate"

\* C21: every run terminates: once check_transaction has been entered, and
\* each engine and checker call returns, the run eventually reaches done (an
\* Ok report or an error), for every cap and also when deal never cures the
\* revert.
C21_RunTerminates == (pc # "idle") ~> (pc = "done" /\ result # None)

\* C21 witness: a default run that reverted in every one of its iterations,
\* each followed by a successful deal, has returned
C21_Witness ==
    /\ pc = "done"
    /\ result # None
    /\ DefaultOptions
    /\ iteration = DefaultMaxIterations
    /\ Cardinality({i \in Ops("deal") : log[i].ok}) >= DefaultMaxIterations
    /\ \A i \in Ops("transact_raw") : log[i].ok /\ log[i].reverted

Unmatched(e) ==
    /\ e.ok
    /\ e.reverted
    /\ \/ ~tracing
       \/ e.selected = None
       \/ \A k \in 1 .. Len(checkers) : identify_asset(e.selected.some) = None

\* C23: after such an execution the loop ends: the run performs no further
\* engine execution, no balance query and no deal, and returns Ok with the
\* aggregation of what the earlier iterations recorded.
C23_UnmatchedRevertEndsLoop ==
    \A i \in Ops("transact_raw") :
        Unmatched(log[i]) =>
            /\ \A j \in (i + 1) .. Len(log) : log[j].op = "aggregate"
            /\ pc \in {"check", "end_iter", "aggregate", "done"}
            /\ HistoryIsComplete
            /\ pc = "done" =>
                  /\ IsOk(result)
                  /\ SameEntries(result.ok, aggregate_missing_assets(all_missing_assets))

\* C23 witness: the first iteration recorded and dealt a shortfall, the second
\* reverted in a call no checker identifies, and the run returned the record
C23_Witness ==
    /\ pc = "done"
    /\ auto_fix
    /\ iteration = 1
    /\ iteration + 1 < max_iterations
    /\ Executions = 2
    /\ IsOk(result)
    /\ Len(result.ok) = 1
    /\ log[Len(log) - 1].op = "transact_raw"
    /\ Unmatched(log[Len(log) - 1])

\* C24 (as claimed): within one iteration every check_balance happens before
\* any deal: a balance query that follows a deal is separated from it by an
\* engine execution, so no measurement observes a patch made by a deal of
\* its own iteration.
C24_Claimed ==
    \A i \in Ops("deal") :
        \A j \in Ops("check_balance") :
            i < j => \E k \in Ops("transact_raw") : i < k /\ k < j

\* log entries i < j belong to the same iteration: no engine execution between
SameIteration(i, j) == ~\E k \in Ops("transact_raw") : i < k /\ k < j

\* C25 (as claimed): within an iteration the checkers act in registration
\* order, and of several checkers that identify the selected node only the
\* first-registered one claims it: once a checker has measured the node, no
\* later checker of that iteration queries a balance for it.
C25_Claimed ==
    \A i \in Ops("check_balance") :
        \A j \in Ops("check_balance") :
            (i < j /\ SameIteration(i, j)) =>
                /\ log[i].checker < log[j].checker
                /\ ~log[i].ok

\* C26 (as claimed): for a transferFrom that reverts only for want of
\* allowance (the debited account holds the amount) no checker yields a
\* candidate for the selected node and no balance query is issued.
C26_Claimed ==
    AllowanceOnlyRevert =>
        /\ potential_asset = None
        /\ Ops("check_balance") = {}

\* the records for (account, token), oldest first
GroupOf(account, token) ==
    SelectSeq(all_missing_assets,
              LAMBDA m : m.account = account /\ m.required.token = token)

\* sums of 256-bit words over the first n records of g
RECURSIVE SumAmounts(_, _)
SumAmounts(g, n) ==
    IF n = 0 THEN 0 ELSE wrapping_add(SumAmounts(g, n - 1), g[n].required.amount)

RECURSIVE SumMissing(_, _)
SumMissing(g, n) ==
    IF n = 0 THEN 0 ELSE wrapping_add(SumMissing(g, n - 1), g[n].missing_amount)

\* the report holds exactly one entry for the records g, carrying their sums
OneSummedEntry(g) ==
    /\ Cardinality({k \in 1 .. Len(result.ok) :
                       /\ result.ok[k].account = g[1].account
                       /\ result.ok[k].required.token = g[1].required.token}) = 1
    /\ \E k \in 1 .. Len(result.ok) :
          /\ result.ok[k].account = g[1].account
          /\ result.ok[k].required.token = g[1].required.token
          /\ result.ok[k].required.amount = SumAmounts(g, Len(g))
          /\ result.ok[k].missing_amount = SumMissing(g, Len(g))

\* C27 (as claimed): when a run that returns Ok recorded a shortfall of the
\* same (account, token) in two or more iterations, the report carries a
\* single entry for that pair, whose required amount is the sum of the
\* recorded amounts and whose missing_amount is the sum of the recorded
\* missing amounts.
C27_Claimed ==
    (pc = "done" /\ IsOk(result)) =>
        \A i \in Ops("check_balance") :
            \A j \in Ops("check_balance") :
                ( /\ i < j
                  /\ log[i].recorded
                  /\ log[j].recorded
                  /\ ~SameIteration(i, j)
                  /\ log[i].res.ok.account = log[j].res.ok.account
                  /\ log[i].res.ok.required.token = log[j].res.ok.required.token )
                => OneSummedEntry(GroupOf(log[i].res.ok.account,
                                          log[i].res.ok.required.token))

\* the first record, in recording order, that the aggregator files under key
FirstObservation(key) ==
    all_missing_assets[CHOOSE i \in 1 .. Len(all_missing_assets) :
                           /\ entry_key(all_missing_assets[i]) = key
                           /\ \A j \in 1 .. (i - 1) :
                                 entry_key(all_missing_assets[j]) # key]

\* every group of the map carries the current_balance of its first record
KeepsFirstBalance(map) ==
    /\ \A k \in 1 .. Len(map) :
          map[k].value.current_balance = FirstObservation(map[k].key).current_balance
    /\ SameEntries(result.ok, into_values(map))

\* C28: each entry of the report carries, as current_balance, the value of
\* the first record of its group in recording order; later records of the
\* group neither add to it nor replace it.
C28_FirstBalanceKept ==
    (pc = "done" /\ IsOk(result)) =>
        KeepsFirstBalance(aggregate_loop(all_missing_assets, 1, << >>))

\* C28 witness: a group of two records with different balances (0 before the
\* deal, the sentinel after it), reported with the first
C28_Witness ==
    /\ pc = "done"
    /\ IsOk(result)
    /\ Len(result.ok) = 1
    /\ Len(all_missing_assets) >= 2
    /\ entry_key(all_missing_assets[1]) = entry_key(all_missing_assets[2])
    /\ all_missing_assets[1].current_balance # all_missing_assets[2].current_balance
    /\ result.ok[1].current_balance = all_missing_assets[1].current_balance

\* the context deal is about to be given carries no storage access
EmptyContext ==
    /\ pc = "deal"
    /\ from_trace(pending.some.asset, trace.some).storage_accesses = << >>

\* C29: a deal whose context carries no recorded storage access returns an
\* error and writes no storage slot, and the run ends there with that error
\* instead of the shortfall it had recorded.
C29_DealWithoutAccessesFails ==
    [][(Deal /\ EmptyContext) =>
          /\ storage' = storage
          /\ ~log'[Len(log')].ok
          /\ result' = Err("No storage accesses found in trace")
          /\ pc' = "done"
          /\ all_missing_assets' = all_missing_assets
          /\ all_missing_assets # << >>]_vars

\* C29 witness: an auto-fix run on a transfer with a shortfall whose node
\* read no storage slot has returned deal's error, the storage untouched
C29_Witness ==
    /\ pc = "done"
    /\ auto_fix
    /\ result = Err("No storage accesses found in trace")
    /\ trace.some.sloads = << >>
    /\ all_missing_assets # << >>
    /\ storage = storage0
    /\ log[Len(log)].op = "deal"

\* the slots listed in a context's storage_accesses
Accessed(context) ==
    {context.storage_accesses[k] : k \in 1 .. Len(context.storage_accesses)}

\* storage st with exactly the slots `slots` of contract `token` set to v
Overwritten(st, token, slots, v) ==
    [t \in DOMAIN st |->
        [s \in DOMAIN st[t] |-> IF t = token /\ s \in slots THEN v ELSE st[t][s]]]

\* C30: a successful deal leaves the storage as it was except that every slot
\* listed in the context's storage_accesses, in the storage of the token of
\* the asset dealt, holds the sentinel 2^(w-1) - 1 = U256::MAX >> 1, which is
\* not the numeric maximum; no other slot and no other contract changes.
C30_DealOverwritesAccessedSlots ==
    [][(Deal /\ log'[Len(log')].ok) =>
          /\ storage' = Overwritten(storage, pending.some.missing.required.token,
                                    Accessed(from_trace(pending.some.asset, trace.some)),
                                    2 ^ (W - 1) - 1)
          /\ 2 ^ (W - 1) - 1 < U256_MAX]_vars

\* C30 witness: a deal for a transferFrom node has just patched the allowance
\* slot and the balance slot it read, and the other token is as it was
C30_Witness ==
    /\ log # << >>
    /\ log[Len(log)].op = "deal"
    /\ log[Len(log)].ok
    /\ trace.some.address = T1
    /\ Cardinality({trace.some.sloads[k] : k \in 1 .. Len(trace.some.sloads)}) >= 2
    /\ \A k \in 1 .. Len(trace.some.sloads) :
          storage[T1][trace.some.sloads[k]] = large_balance
    /\ \E s \in Slots : storage[T1][s] # large_balance
    /\ storage[T2] = storage0[T2]

\* C31: a deal whose verification read-back fails still returns Ok: the run
\* does not end there, the checkers that remain are consulted, and the
\* iteration ends in `continue`, so the next thing the engine does is the
\* re-simulation (or the loop is exhausted and the report is built).
C31_ReadBackFailureNotFatal ==
    \A i \in Ops("deal") :
        log[i].read_back = "failed" =>
            /\ log[i].ok
            /\ IF i < Len(log)
               THEN IF log[i].checker < Len(checkers)
                    THEN log[i + 1].op = "check_balance"
                    ELSE log[i + 1].op \in {"transact_raw", "aggregate"}
               ELSE /\ result = None
                    /\ found_any_missing
                    /\ auto_fix
                    /\ pc \in {"check", "end_iter", "loop", "aggregate"}
                    /\ pc \in {"loop", "aggregate"} => iteration >= 1

\* C31 witness: the read-back of the first iteration's deal failed, and the
\* second iteration ran on the patched storage and went through
C31_Witness ==
    /\ pc = "done"
    /\ result = Ok(<< Entry(A1, T1, 1, 0, 1) >>)
    /\ Executions = 2
    /\ \E i \in Ops("deal") : log[i].read_back = "failed" /\ log[i].ok
    /\ storage[T1][BalSlot(A1)] = large_balance - 1

\* a step that enters a run
RunEntered == runs' # runs

\* a step in which the engine is used: an execution, a balance query or a deal
EngineUsed == runs' = runs /\ log' # log

PreviousExecution(k) ==
    CHOOSE p \in 1 .. (k - 1) :
        /\ log[p].op = "transact_raw"
        /\ \A q \in (p + 1) .. (k - 1) : log[q].op # "transact_raw"

\* the iteration logged from p up to (not including) k reverted, recorded a
\* shortfall, and dealt every shortfall it recorded, each deal succeeding
FixedIteration(p, k) ==
    /\ log[p].ok
    /\ log[p].reverted
    /\ \E i \in (p + 1) .. (k - 1) :
          /\ log[i].op = "check_balance"
          /\ log[i].recorded
          /\ log[i].res.ok.missing_amount > 0
    /\ \A i \in (p + 1) .. (k - 1) :
          /\ log[i].op \in {"check_balance", "deal"}
          /\ log[i].op = "deal" => log[i].ok
          /\ (log[i].op = "check_balance" /\ log[i].recorded) =>
                (i + 1 < k /\ log[i + 1].op = "deal" /\ log[i + 1].ok)

\* C33: an engine execution that is not the run's first (the history grows
\* one operation at a time, so each is at some moment the latest entry)
\* follows an iteration that reverted under auto_fix, recorded at least one
\* shortfall and dealt each recorded shortfall successfully: the loop never
\* re-simulates without having applied a fix.
C33_ResimulatesOnlyAfterFix ==
    (Len(log) >= 2 /\ log[Len(log)].op = "transact_raw") =>
        /\ auto_fix
        /\ iteration >= 1
        /\ FixedIteration(PreviousExecution(Len(log)), Len(log))

\* C33 witness: two checkers, the second of which found nothing left to
\* fix after the first one's deal, and the call was simulated again
C33_Witness ==
    /\ Len(log) >= 4
    /\ log[Len(log)].op = "transact_raw"
    /\ log[Len(log) - 1].op = "check_balance"
    /\ ~log[Len(log) - 1].recorded
    /\ log[Len(log) - 2].op = "deal"
    /\ iteration = 1

\* C34: every deal is made under auto_fix, directly after a check_balance of
\* the same checker that returned Ok with missing_amount > 0, for that
\* measurement's account and required asset; a measurement that found the
\* balance sufficient, or a balance check that failed, is never followed by
\* a deal.
C34_DealOnlyForMeasuredShortfall ==
    /\ \A i \in Ops("deal") :
          /\ auto_fix
          /\ i > 1
          /\ log[i - 1].op = "check_balance"
          /\ log[i - 1].checker = log[i].checker
          /\ log[i - 1].ok
          /\ log[i - 1].res.ok.missing_amount > 0
          /\ log[i].recipient = log[i - 1].res.ok.account
          /\ log[i].asset_spec = log[i - 1].res.ok.required
    /\ \A j \in Ops("check_balance") :
          (j < Len(log) /\ ~log[j].recorded) => log[j + 1].op # "deal"

\* C34 witness: a deal for the debited account of a batch leg (the multicall
\* contract, not the sender of the call), and in the same run a sufficient
\* balance measured and left alone
C34_Witness ==
    /\ \E i \in Ops("deal") :
          /\ log[i].recipient = MC
          /\ log[i].recipient # call.from
          /\ log[i].asset_spec.token \in Tokens
    /\ \E j \in Ops("check_balance") :
          /\ log[j].ok
          /\ ~log[j].recorded
          /\ j < Len(log)

\* sums over the first n records of g, as numbers (no word width)
RECURSIVE ExactMissing(_, _)
ExactMissing(g, n) ==
    IF n = 0 THEN 0 ELSE ExactMissing(g, n - 1) + g[n].missing_amount

RECURSIVE ExactAmount(_, _)
ExactAmount(g, n) ==
    IF n = 0 THEN 0 ELSE ExactAmount(g, n - 1) + g[n].required.amount

\* C35 (as claimed): for every run that returns Ok, the missing amounts of the
\* report add up to the missing amounts of all the shortfalls recorded, and
\* every recorded (account, token) pair has an entry in the report.
C35_Claimed ==
    (pc = "done" /\ IsOk(result)) =>
        /\ ExactMissing(result.ok, Len(result.ok))
              = ExactMissing(all_missing_assets, Len(all_missing_assets))
        /\ \A i \in 1 .. Len(all_missing_assets) :
              \E k \in 1 .. Len(result.ok) :
                  /\ result.ok[k].account = all_missing_assets[i].account
                  /\ result.ok[k].required.token = all_missing_assets[i].required.token

\* C36 (as claimed, on a simulator with the one ERC20 checker): every entry of
\* a returned report has 0 < missing_amount <= the amount of its required
\* ERC20 spec, whether it was recorded once or merged from several records.
C36_Claimed ==
    (pc = "done" /\ IsOk(result) /\ checkers = << AssetType_ERC20 >>) =>
        \A k \in 1 .. Len(result.ok) :
            /\ 0 < result.ok[k].missing_amount
            /\ result.ok[k].missing_amount <= result.ok[k].required.amount

\* the records the aggregator files under key, oldest first
KeyGroup(key) == SelectSeq(all_missing_assets, LAMBDA m : entry_key(m) = key)

\* every group of the map carries the exact sums of its records
ExactSums(map) ==
    \A k \in 1 .. Len(map) :
        /\ map[k].value.missing_amount
              = ExactMissing(KeyGroup(map[k].key), Len(KeyGroup(map[k].key)))
        /\ map[k].value.required.amount
              = ExactAmount(KeyGroup(map[k].key), Len(KeyGroup(map[k].key)))

\* C37 (as claimed, on a simulator with the one ERC20 checker): for every
\* group the reported missing_amount and required amount are the mathematical
\* sums of the group's recorded values: the additions never wrap modulo 2^w,
\* for runs of up to max_iterations iterations and amounts above the sentinel
\* deal writes.
C37_Claimed ==
    (pc = "done" /\ IsOk(result) /\ checkers = << AssetType_ERC20 >>) =>
        ExactSums(aggregate_loop(all_missing_assets, 1, << >>))

\* C38 (as claimed): for every delegate-call node the walk came to, other
\* than the first of the execution order, the closure accepts the node
\* exactly when its calldata differs from that of the node one position
\* before it, whatever the earlier nodes of the tree are.
C38_Claimed ==
    pc = "selected" =>
        \A i \in 2 .. Len(traces.some) :
            ( /\ i >= selected_index(traces.some)
              /\ traces.some[i].kind = CallKind_DelegateCall )
            => ( is_non_proxy(traces.some, traces.some[i])
                   <=> traces.some[i].data # traces.some[i - 1].data )

\* C39: a run with max_iterations = 0 makes no engine execution, no balance
\* query and no deal, leaves the simulated storage as it found it, records
\* nothing and returns Ok with an empty sequence, whatever the call and
\* auto_fix.
C39_ZeroIterationsDoesNothing ==
    (pc # "idle" /\ max_iterations = 0) =>
        /\ \A i \in DOMAIN log : log[i].op = "aggregate"
        /\ storage = storage0
        /\ all_missing_assets = << >>
        /\ faults = 0
        /\ pc \in {"loop", "aggregate", "done"}
        /\ pc = "done" => result = Ok(<< >>)

\* C39 witness: a transfer by a sender who holds nothing, auto_fix on and a
\* checker registered, run with a cap of 0, has returned the empty report
C39_Witness ==
    /\ pc = "done"
    /\ max_iterations = 0
    /\ auto_fix
    /\ ZeroBalanceTransfer
    /\ Len(checkers) >= 1
    /\ tracing
    /\ result = Ok(<< >>)
    /\ log = << [op |-> "aggregate"] >>

====
